---- MODULE Spec2Model ----
(***************************************************************************)
(* Model of the GF(2) kernel (mzd_additional.c) and of the three-party     *)
(* share layer (mpc.c) of fish-begol.                                      *)
(*                                                                         *)
(* A machine word is the set of its set bit positions, a subset of        *)
(* 0..m4ri_radix-1 (bit 0 is the least significant bit).  Shifting a word  *)
(* drops the bits that leave the word, as the C operators do on uint64_t.  *)
(* A matrix is its descriptor together with its backing buffer `data`, a   *)
(* flat array of nrows*rowstride words; row i starts at word i*rowstride.  *)
(* The heap `mem` maps addresses to matrices, so that operations which     *)
(* are handed the same pointer twice work in place, as in the code.        *)
(***************************************************************************)
EXTENDS Integers, Sequences, FiniteSets, TLC

VARIABLES cpu, mem, pre, last

vars == <<cpu, mem, pre, last>>

(***************************************************************************)
(* Program constants                                                       *)
(***************************************************************************)
m4ri_radix == 64

sizeof_word == 8

avx_bound == 256 \div (8 * sizeof_word)

sse_bound == 128 \div (8 * sizeof_word)

SC_PROOF == 3

SC_VERIFY == 2

NULL == "NULL"

FAULT == "FAULT"

\* The value of an address that holds no matrix.
Unalloc == [ nrows |-> 0, ncols |-> 0, width |-> 0, rowstride |-> 0, data |-> << >> ]

(***************************************************************************)
(* Bounds of the model                                                     *)
(***************************************************************************)
MaxShift == 2

MaxOps == 2

(***************************************************************************)
(* Words                                                                   *)
(***************************************************************************)
m4ri_ffff == 0 .. (m4ri_radix - 1)

WordShr(w, k) == { p - k : p \in { q \in w : q >= k } }

WordShl(w, k) == { p + k : p \in { q \in w : q + k < m4ri_radix } }

WordXor(a, b) == (a \ b) \cup (b \ a)

WordAnd(a, b) == a \cap b

WordOr(a, b) == a \cup b

LEFT_BITMASK(n) == WordShr(m4ri_ffff, (m4ri_radix - n) % m4ri_radix)

(***************************************************************************)
(* CPU features.  The empty set is also the build without WITH_OPT.        *)
(***************************************************************************)
CpuChoices == { {}, {"SSE2"}, {"SSE2", "SSE4"}, {"SSE2", "SSE4", "AVX2"} }

CPU_SUPPORTS_AVX2 == "AVX2" \in cpu

CPU_SUPPORTS_SSE4 == "SSE4" \in cpu

CPU_SUPPORTS_SSE2 == "SSE2" \in cpu

(***************************************************************************)
(* Allocation                                                              *)
(***************************************************************************)
calculate_rowstride(width) ==
  IF width >= avx_bound
    THEN (((width * sizeof_word + 31) \div 32) * 32) \div sizeof_word
    ELSE (((width * sizeof_word + 15) \div 16) * 16) \div sizeof_word

mzd_local_init(r, c) ==
  LET width     == (c + m4ri_radix - 1) \div m4ri_radix
      rowstride == calculate_rowstride(width)
  IN  [ nrows        |-> r,
        ncols        |-> c,
        width        |-> width,
        rowstride    |-> rowstride,
        data         |-> [ i \in 0 .. (r * rowstride - 1) |-> {} ] ]

\* A->high_bitmask: set from ncols by mzd_local_init and never written again.
high_bitmask(A) == LEFT_BITMASK(A.ncols % m4ri_radix)

\* Row i of A as the set of its set column positions (words 0..width-1).
RowBits(A, i) ==
  UNION { { w * m4ri_radix + p : p \in A.data[i * A.rowstride + w] }
          : w \in 0 .. (A.width - 1) }

\* The matrix of shape r x c whose row i has exactly the columns bits[i] set
\* (bits at or beyond the row's storage are not representable and dropped).
MatOf(r, c, bits) ==
  LET Z == mzd_local_init(r, c)
  IN  [ Z EXCEPT !.data =
          [ i \in DOMAIN Z.data |->
              IF i % Z.rowstride < Z.width
                THEN { p \in m4ri_ffff :
                         ((i % Z.rowstride) * m4ri_radix + p)
                            \in bits[i \div Z.rowstride] }
                ELSE {} ] ]

VecOf(c, bits) == MatOf(1, c, [ i \in {0} |-> bits ])

\* Padding of a row: the bits of the last word outside high_bitmask.
PaddingZero(A) ==
  \A i \in 0 .. (A.nrows - 1) :
    A.data[i * A.rowstride + A.width - 1] \subseteq high_bitmask(A)

(***************************************************************************)
(* mzd_local_copy, for destinations of the source's shape                  *)
(***************************************************************************)
mzd_local_copy(m, dst, src) ==
  IF dst = src
    THEN m
    ELSE [ m EXCEPT ![dst].data =
             [ i \in DOMAIN m[dst].data |->
                 IF /\ i \div m[dst].rowstride < m[src].nrows
                    /\ i % m[dst].rowstride < m[src].width
                   THEN m[src].data[(i \div m[dst].rowstride) * m[src].rowstride
                                      + (i % m[dst].rowstride)]
                   ELSE m[dst].data[i] ] ]

(***************************************************************************)
(* mzd_randomize_ssl: rnd is the outcome of rand_bytes, one word per word  *)
(* of the row                                                              *)
(***************************************************************************)
mzd_randomize_ssl(m, val, rnd) ==
  LET V == m[val]
  IN  [ m EXCEPT ![val].data =
          [ i \in DOMAIN V.data |->
              IF i % V.rowstride < V.width
                THEN IF i % V.rowstride = V.width - 1
                       THEN WordAnd(rnd[i], high_bitmask(V))
                       ELSE rnd[i]
                ELSE V.data[i] ] ]

(***************************************************************************)
(* Shifts of single-row vectors                                            *)
(***************************************************************************)
\* mzd_shift_right storing the last word without shifting it.
mzd_shift_right_last_unshifted(m, res, val, count) ==
  IF count = 0
    THEN mzd_local_copy(m, res, val)
    ELSE
      LET nwords     == m[val].width
          left_count == 8 * sizeof_word - count
          v          == m[val].data
      IN  [ m EXCEPT ![res].data =
              [ i \in DOMAIN m[res].data |->
                  IF i < nwords - 1
                    THEN WordOr(WordShr(v[i], count), WordShl(v[i + 1], left_count))
                    ELSE IF i = nwords - 1
                           THEN v[i]
                           ELSE m[res].data[i] ] ]

mzd_shift_right(m, res, val, count) ==
  IF count = 0
    THEN mzd_local_copy(m, res, val)
    ELSE
      LET nwords     == m[val].width
          left_count == 8 * sizeof_word - count
          v          == m[val].data
      IN  [ m EXCEPT ![res].data =
              [ i \in DOMAIN m[res].data |->
                  IF i < nwords - 1
                    THEN WordOr(WordShr(v[i], count), WordShl(v[i + 1], left_count))
                    ELSE IF i = nwords - 1
                           THEN WordShr(v[i], count)
                           ELSE m[res].data[i] ] ]

\* mzd_shift_left without the bits carried in from the lower word.
mzd_shift_left_no_carry(m, res, val, count) ==
  IF count = 0
    THEN mzd_local_copy(m, res, val)
    ELSE
      LET nwords == m[val].width
          v      == m[val].data
      IN  [ m EXCEPT ![res].data =
              [ i \in DOMAIN m[res].data |->
                  IF i <= nwords - 1 THEN WordShl(v[i], count) ELSE m[res].data[i] ] ]

mzd_shift_left(m, res, val, count) ==
  IF count = 0
    THEN mzd_local_copy(m, res, val)
    ELSE
      LET nwords      == m[val].width
          right_count == 8 * sizeof_word - count
          v           == m[val].data
      IN  [ m EXCEPT ![res].data =
              [ i \in DOMAIN m[res].data |->
                  IF i > 0 /\ i <= nwords - 1
                    THEN WordOr(WordShl(v[i], count), WordShr(v[i - 1], right_count))
                    ELSE IF i = 0
                           THEN WordShl(v[i], count)
                           ELSE m[res].data[i] ] ]

(***************************************************************************)
(* Element-wise AND and XOR of single-row vectors                          *)
(***************************************************************************)
\* The 128-bit and 256-bit loops and their word-wise tail together apply
\* the operation to the words 0..width-1 of the first operand; no mask.
mzd_and_sse(m, res, first, second) ==
  [ m EXCEPT ![res].data =
      [ i \in DOMAIN m[res].data |->
          IF i < m[first].width
            THEN WordAnd(m[first].data[i], m[second].data[i])
            ELSE m[res].data[i] ] ]

mzd_and_avx(m, res, first, second) ==
  [ m EXCEPT ![res].data =
      [ i \in DOMAIN m[res].data |->
          IF i < m[first].width
            THEN WordAnd(m[first].data[i], m[second].data[i])
            ELSE m[res].data[i] ] ]

mzd_and(m, res, first, second) ==
  IF CPU_SUPPORTS_AVX2 /\ m[first].ncols >= 256 /\ m[first].ncols % m4ri_radix = 0
    THEN mzd_and_avx(m, res, first, second)
    ELSE IF CPU_SUPPORTS_SSE2 /\ m[first].ncols % m4ri_radix = 0
      THEN mzd_and_sse(m, res, first, second)
      ELSE
        LET width == m[first].width
            mask  == high_bitmask(m[first])
        IN  [ m EXCEPT ![res].data =
                [ i \in DOMAIN m[res].data |->
                    IF i < width - 1
                      THEN WordAnd(m[first].data[i], m[second].data[i])
                      ELSE IF i = width - 1
                        THEN WordAnd(WordAnd(m[first].data[i], m[second].data[i]), mask)
                        ELSE m[res].data[i] ] ]

mzd_xor_sse(m, res, first, second) ==
  [ m EXCEPT ![res].data =
      [ i \in DOMAIN m[res].data |->
          IF i < m[first].width
            THEN WordXor(m[first].data[i], m[second].data[i])
            ELSE m[res].data[i] ] ]

mzd_xor_avx(m, res, first, second) ==
  [ m EXCEPT ![res].data =
      [ i \in DOMAIN m[res].data |->
          IF i < m[first].width
            THEN WordXor(m[first].data[i], m[second].data[i])
            ELSE m[res].data[i] ] ]

mzd_xor(m, res, first, second) ==
  IF CPU_SUPPORTS_AVX2 /\ m[first].ncols >= 256 /\ m[first].ncols % m4ri_radix = 0
    THEN mzd_xor_avx(m, res, first, second)
    ELSE IF CPU_SUPPORTS_SSE2 /\ m[first].ncols % m4ri_radix = 0
      THEN mzd_xor_sse(m, res, first, second)
      ELSE
        LET width == m[first].width
            mask  == high_bitmask(m[first])
        IN  [ m EXCEPT ![res].data =
                [ i \in DOMAIN m[res].data |->
                    IF i < width - 1
                      THEN WordXor(m[first].data[i], m[second].data[i])
                      ELSE IF i = width - 1
                        THEN WordAnd(WordXor(m[first].data[i], m[second].data[i]), mask)
                        ELSE m[res].data[i] ] ]

(***************************************************************************)
(* Vector by matrix multiplication.  mzd_mul_v and mzd_addmul_v give the   *)
(* heap after the call and the returned pointer: the destination, NULL,    *)
(* or FAULT when the call dereferences a null pointer.                     *)
(***************************************************************************)
\* The heap with a fresh r x c matrix at address a.
Alloc(m, a, r, c) ==
  [ x \in DOMAIN m \cup {a} |-> IF x = a THEN mzd_local_init(r, c) ELSE m[x] ]

\* TLC evaluates an operator's argument only when it is used; comparing the
\* accumulated words makes it evaluate them before the next iteration of a
\* loop, instead of piling up one pending XOR per iteration.
Evaluated(x) == x = x

\* idx & 0x0F
LowNibble(idx) ==
  (IF 0 \in idx THEN 1 ELSE 0) + (IF 1 \in idx THEN 2 ELSE 0)
    + (IF 2 \in idx THEN 4 ELSE 0) + (IF 3 \in idx THEN 8 ELSE 0)

\* mm128_xor_region and mm256_xor_region: XOR len lanes of `words` words each,
\* read from word offset off of the buffer adata, into the start of cdata.
mm_xor_region(cdata, adata, off, len, words) ==
  [ i \in DOMAIN cdata |->
      IF i < len * words THEN WordXor(cdata[i], adata[off + i]) ELSE cdata[i] ]

\* The switch of mzd_addmul_v_sse with case 0x06 taking the rows of case 0x0a.
sse_case_swapped(nib) ==
  CASE nib = 0 -> << >>          [] nib = 1 -> <<0>>
    [] nib = 2 -> <<1>>          [] nib = 3 -> <<0, 1>>
    [] nib = 4 -> <<2>>          [] nib = 5 -> <<0, 2>>
    [] nib = 6 -> <<1, 3>>       [] nib = 7 -> <<0, 1, 2>>
    [] nib = 8 -> <<3>>          [] nib = 9 -> <<0, 3>>
    [] nib = 10 -> <<1, 3>>      [] nib = 11 -> <<0, 1, 3>>
    [] nib = 12 -> <<2, 3>>      [] nib = 13 -> <<0, 2, 3>>
    [] nib = 14 -> <<1, 2, 3>>   [] nib = 15 -> <<0, 1, 2, 3>>

\* The switch of mzd_addmul_v_sse: for each value of the nibble, the
\* multiples k of mrowstride whose region mAptr + k * mrowstride is XORed
\* into c, in the order of the statements of the case.
sse_case(nib) ==
  CASE nib = 0 -> << >>          [] nib = 1 -> <<0>>
    [] nib = 2 -> <<1>>          [] nib = 3 -> <<0, 1>>
    [] nib = 4 -> <<2>>          [] nib = 5 -> <<0, 2>>
    [] nib = 6 -> <<1, 2>>       [] nib = 7 -> <<0, 1, 2>>
    [] nib = 8 -> <<3>>          [] nib = 9 -> <<0, 3>>
    [] nib = 10 -> <<1, 3>>      [] nib = 11 -> <<0, 1, 3>>
    [] nib = 12 -> <<2, 3>>      [] nib = 13 -> <<0, 2, 3>>
    [] nib = 14 -> <<1, 2, 3>>   [] nib = 15 -> <<0, 1, 2, 3>>

\* The switch of mzd_addmul_v_avx.
avx_case(nib) ==
  CASE nib = 0 -> << >>          [] nib = 1 -> <<0>>
    [] nib = 2 -> <<1>>          [] nib = 3 -> <<0, 1>>
    [] nib = 4 -> <<2>>          [] nib = 5 -> <<0, 2>>
    [] nib = 6 -> <<1, 2>>       [] nib = 7 -> <<0, 1, 2>>
    [] nib = 8 -> <<3>>          [] nib = 9 -> <<0, 3>>
    [] nib = 10 -> <<1, 3>>      [] nib = 11 -> <<0, 1, 3>>
    [] nib = 12 -> <<2, 3>>      [] nib = 13 -> <<0, 2, 3>>
    [] nib = 14 -> <<1, 2, 3>>   [] nib = 15 -> <<0, 1, 2, 3>>

\* The statements of one case: ks are the multiples of mrowstride, base the
\* word offset of mAptr, lane the number of words of a SIMD register.
RECURSIVE simd_case_body(_, _, _, _, _, _, _)
simd_case_body(cdata, adata, ks, base, mrowstride, len, lane) ==
  IF ks = << >>
    THEN cdata
    ELSE simd_case_body(
           mm_xor_region(cdata, adata, base + Head(ks) * mrowstride * lane, len, lane),
           adata, Tail(ks), base, mrowstride, len, lane)

\* while (idx) { switch (idx & 0x0F) ...; mAptr += 4 * mrowstride; idx >>= 4; }
RECURSIVE sse_while(_, _, _, _, _, _)
sse_while(cdata, adata, idx, base, mrowstride, len) ==
  IF idx = {} \/ ~Evaluated(cdata)
    THEN cdata
    ELSE sse_while(
           simd_case_body(cdata, adata, sse_case(LowNibble(idx)), base,
                          mrowstride, len, sse_bound),
           adata, WordShr(idx, 4), base + 4 * mrowstride * sse_bound, mrowstride, len)

RECURSIVE avx_while(_, _, _, _, _, _)
avx_while(cdata, adata, idx, base, mrowstride, len) ==
  IF idx = {} \/ ~Evaluated(cdata)
    THEN cdata
    ELSE avx_while(
           simd_case_body(cdata, adata, avx_case(LowNibble(idx)), base,
                          mrowstride, len, avx_bound),
           adata, WordShr(idx, 4), base + 4 * mrowstride * avx_bound, mrowstride, len)

RECURSIVE sse_words(_, _, _, _)
sse_words(cdata, V, A, w) ==
  IF w >= V.width \/ ~Evaluated(cdata)
    THEN cdata
    ELSE sse_words(
           sse_while(cdata, A.data, V.data[w],
                     (w * sizeof_word * 8) * A.rowstride,
                     (A.rowstride * sizeof_word) \div 16,
                     (A.width * sizeof_word) \div 16),
           V, A, w + 1)

RECURSIVE avx_words(_, _, _, _)
avx_words(cdata, V, A, w) ==
  IF w >= V.width \/ ~Evaluated(cdata)
    THEN cdata
    ELSE avx_words(
           avx_while(cdata, A.data, V.data[w],
                     (w * sizeof_word * 8) * A.rowstride,
                     (A.rowstride * sizeof_word) \div 32,
                     (A.width * sizeof_word) \div 32),
           V, A, w + 1)

mzd_addmul_v_sse(m, c, v, A) ==
  [ m EXCEPT ![c].data = sse_words(m[c].data, m[v], m[A], 0) ]

mzd_addmul_v_avx(m, c, v, A) ==
  [ m EXCEPT ![c].data = avx_words(m[c].data, m[v], m[A], 0) ]

\* The body of `if (idx & 0x1)`: row Aptr XORed into c, last word masked.
scalar_xor_row(cdata, adata, aoff, len, mask) ==
  [ i \in DOMAIN cdata |->
      IF i < len - 1
        THEN WordXor(cdata[i], adata[aoff + i])
        ELSE IF i = len - 1
          THEN WordAnd(WordXor(cdata[i], adata[aoff + i]), mask)
          ELSE cdata[i] ]

\* while (idx) { if (idx & 0x1) ...; Aptr += rowstride; idx >>= 1; }
RECURSIVE scalar_while(_, _, _, _)
scalar_while(cdata, A, idx, aoff) ==
  IF idx = {} \/ ~Evaluated(cdata)
    THEN cdata
    ELSE scalar_while(
           IF 0 \in idx
             THEN scalar_xor_row(cdata, A.data, aoff, A.width, high_bitmask(A))
             ELSE cdata,
           A, WordShr(idx, 1), aoff + A.rowstride)

RECURSIVE scalar_words(_, _, _, _)
scalar_words(cdata, V, A, w) ==
  IF w >= V.width \/ ~Evaluated(cdata)
    THEN cdata
    ELSE scalar_words(
           scalar_while(cdata, A, V.data[w], (w * sizeof_word * 8) * A.rowstride),
           V, A, w + 1)

\* The portable loop at the end of mzd_addmul_v.
mzd_addmul_v_scalar(m, c, v, A) ==
  [ m EXCEPT ![c].data = scalar_words(m[c].data, m[v], m[A], 0) ]

mzd_addmul_v(m, c, v, A) ==
  IF c = NULL
    THEN [ mem |-> m, ret |-> FAULT ]
  ELSE IF m[A].ncols # m[c].ncols \/ m[A].nrows # m[v].ncols
    THEN [ mem |-> m, ret |-> NULL ]
  ELSE IF /\ m[A].nrows % (sizeof_word * 8) = 0
          /\ CPU_SUPPORTS_AVX2
          /\ m[A].ncols % 256 = 0
    THEN [ mem |-> mzd_addmul_v_avx(m, c, v, A), ret |-> c ]
  ELSE IF /\ m[A].nrows % (sizeof_word * 8) = 0
          /\ CPU_SUPPORTS_SSE2
          /\ m[A].ncols % 128 = 0
    THEN [ mem |-> mzd_addmul_v_sse(m, c, v, A), ret |-> c ]
  ELSE [ mem |-> mzd_addmul_v_scalar(m, c, v, A), ret |-> c ]

\* mzd_mul_v without the clearing of a supplied c.
mzd_row_clear_offset_skipped(m, c) == m

\* mzd_row_clear_offset(c, 0, 0): the words of row 0 of c set to zero.
mzd_row_clear_offset(m, c) ==
  [ m EXCEPT ![c].data =
      [ i \in DOMAIN m[c].data |-> IF i < m[c].width THEN {} ELSE m[c].data[i] ] ]

\* An absent destination c is allocated at the address "heap".
mzd_mul_v(m, c, v, At) ==
  IF m[At].nrows # m[v].ncols
    THEN [ mem |-> m, ret |-> NULL ]
    ELSE IF c = NULL
      THEN mzd_addmul_v(Alloc(m, "heap", 1, m[At].ncols), "heap", v, At)
      ELSE mzd_addmul_v(mzd_row_clear_offset(m, c), c, v, At)

(***************************************************************************)
(* Equality                                                                *)
(***************************************************************************)
\* The 128-bit and 256-bit loops and their word-wise tail together compare
\* the words 0..width-1 of rows[0] of the two operands.
mzd_equal_sse(first, second) ==
  \A i \in 0 .. (first.width - 1) : first.data[i] = second.data[i]

mzd_equal_sse41(first, second) ==
  \A i \in 0 .. (first.width - 1) : first.data[i] = second.data[i]

mzd_equal_avx(first, second) ==
  \A i \in 0 .. (first.width - 1) : first.data[i] = second.data[i]

\* mzd_cmp(first, second) == 0 of m4ri, for operands of zero padding: the
\* shapes agree and so does every word of every row (the last one of a row
\* under high_bitmask).
mzd_cmp_is_0(first, second) ==
  /\ first.nrows = second.nrows
  /\ first.ncols = second.ncols
  /\ \A i \in 0 .. (first.nrows - 1) :
       \A j \in 0 .. (first.width - 1) :
         IF j = first.width - 1
           THEN WordAnd(first.data[i * first.rowstride + j], high_bitmask(first))
                  = WordAnd(second.data[i * second.rowstride + j], high_bitmask(first))
           ELSE first.data[i * first.rowstride + j]
                  = second.data[i * second.rowstride + j]

mzd_local_equal(first, second) ==
  IF first.ncols # second.ncols \/ first.nrows # second.nrows
    THEN FALSE
  ELSE IF CPU_SUPPORTS_AVX2 /\ first.ncols >= 256
    THEN mzd_equal_avx(first, second)
  ELSE IF CPU_SUPPORTS_SSE4
    THEN mzd_equal_sse41(first, second)
  ELSE IF CPU_SUPPORTS_SSE2
    THEN mzd_equal_sse(first, second)
  ELSE mzd_cmp_is_0(first, second)

(***************************************************************************)
(* Share layer (mpc.c).  A share triple is an array of addresses, indexed  *)
(* from 0 as in the code.                                                  *)
(***************************************************************************)
RECURSIVE mpc_shift_right_from(_, _, _, _, _, _)
mpc_shift_right_from(m, res, val, count, sc, i) ==
  IF i >= sc
    THEN m
    ELSE mpc_shift_right_from(mzd_shift_right(m, res[i], val[i], count),
                              res, val, count, sc, i + 1)

mpc_shift_right(m, res, val, count, sc) ==
  mpc_shift_right_from(m, res, val, count, sc, 0)

RECURSIVE mpc_xor_from(_, _, _, _, _, _)
mpc_xor_from(m, res, first, second, sc, i) ==
  IF i >= sc
    THEN m
    ELSE mpc_xor_from(mzd_xor(m, res[i], first[i], second[i]),
                      res, first, second, sc, i + 1)

mpc_xor(m, res, first, second, sc) == mpc_xor_from(m, res, first, second, sc, 0)

\* and_gate_party without the term first[mm] AND second[j].
and_gate_party_no_cross(m, res, first, second, r, b, mm, j) ==
  LET m1 == mzd_and(m, res[mm], first[mm], second[mm])
      m2 == mzd_and(m1, b, first[j], second[mm])
      m3 == mzd_xor(m2, res[mm], res[mm], b)
      m6 == mzd_xor(m3, res[mm], res[mm], r[mm])
  IN  mzd_xor(m6, res[mm], res[mm], r[j])

\* One iteration of the party loop of mpc_and and of mpc_and_verify: the
\* statements for party mm with neighbour j, b being buffer[0].
and_gate_party(m, res, first, second, r, b, mm, j) ==
  LET m1 == mzd_and(m, res[mm], first[mm], second[mm])
      m2 == mzd_and(m1, b, first[j], second[mm])
      m3 == mzd_xor(m2, res[mm], res[mm], b)
      m4 == mzd_and(m3, b, first[mm], second[j])
      m5 == mzd_xor(m4, res[mm], res[mm], b)
      m6 == mzd_xor(m5, res[mm], res[mm], r[mm])
  IN  mzd_xor(m6, res[mm], res[mm], r[j])

RECURSIVE mpc_and_loop(_, _, _, _, _, _, _)
mpc_and_loop(m, res, first, second, r, b, mm) ==
  IF mm >= SC_PROOF
    THEN m
    ELSE mpc_and_loop(
           and_gate_party(m, res, first, second, r, b, mm, (mm + 1) % SC_PROOF),
           res, first, second, r, b, mm + 1)

\* mpc_and storing the shifted results in the view instead of XORing them
\* into it.
mpc_and_view_overwritten(m, res, first, second, r, view, viewshift, buffer) ==
  LET b  == buffer[0]
      m1 == mpc_and_loop(m, res, first, second, r, b, 0)
  IN  mpc_shift_right(m1, view, res, viewshift, SC_PROOF)

mpc_and(m, res, first, second, r, view, viewshift, buffer) ==
  LET b  == buffer[0]
      m1 == mpc_and_loop(m, res, first, second, r, b, 0)
      m2 == mpc_shift_right(m1, buffer, res, viewshift, SC_PROOF)
  IN  mpc_xor(m2, view, view, buffer, SC_PROOF)

RECURSIVE mpc_and_verify_loop(_, _, _, _, _, _, _)
mpc_and_verify_loop(m, res, first, second, r, b, mm) ==
  IF mm >= SC_VERIFY - 1
    THEN m
    ELSE mpc_and_verify_loop(
           and_gate_party(m, res, first, second, r, b, mm, mm + 1),
           res, first, second, r, b, mm + 1)

\* The second loop of mpc_and_verify left out: view.s[0] is not written.
mpc_and_verify_views_skipped(m, res, view, viewshift, b, mm) == m

\* The second loop of mpc_and_verify XORing res[0] into view.s[0] without
\* shifting it.
mpc_and_verify_views_unshifted(m, res, view, viewshift, b, mm) ==
  mzd_xor(m, view[0], view[0], res[0])

RECURSIVE mpc_and_verify_views(_, _, _, _, _, _)
mpc_and_verify_views(m, res, view, viewshift, b, mm) ==
  IF mm >= SC_VERIFY - 1
    THEN m
    ELSE mpc_and_verify_views(
           mzd_xor(mzd_shift_right(m, b, res[mm], viewshift), view[mm], view[mm], b),
           res, view, viewshift, b, mm + 1)

\* mpc_and_verify reading the view of party 1 back without shifting it.
mpc_and_verify_no_shift(m, res, first, second, r, view, mask, viewshift, buffer) ==
  LET b  == buffer[0]
      m1 == mpc_and_verify_loop(m, res, first, second, r, b, 0)
      m2 == mpc_and_verify_views(m1, res, view, viewshift, b, 0)
      m3 == mzd_local_copy(m2, res[SC_VERIFY - 1], view[SC_VERIFY - 1])
  IN  mzd_and(m3, res[SC_VERIFY - 1], res[SC_VERIFY - 1], mask)

mpc_and_verify(m, res, first, second, r, view, mask, viewshift, buffer) ==
  LET b  == buffer[0]
      m1 == mpc_and_verify_loop(m, res, first, second, r, b, 0)
      m2 == mpc_and_verify_views(m1, res, view, viewshift, b, 0)
      m3 == mzd_shift_left(m2, res[SC_VERIFY - 1], view[SC_VERIFY - 1], viewshift)
  IN  mzd_and(m3, res[SC_VERIFY - 1], res[SC_VERIFY - 1], mask)

\* mpc_reconstruct_from_share: the heap after the call; an absent dst is
\* allocated at "dst" (every word of its row is then written by mzd_xor).
mpc_reconstruct_from_share(m, dst, shared) ==
  LET d  == IF dst = NULL THEN "dst" ELSE dst
      m0 == IF dst = NULL
              THEN Alloc(m, "dst", m[shared[0]].nrows, m[shared[0]].ncols)
              ELSE m
  IN  mzd_xor(mzd_xor(m0, d, shared[0], shared[1]), d, d, shared[2])

\* The vector mpc_reconstruct_from_share(NULL, shared) returns.
Reconstruct(m, shared) == mpc_reconstruct_from_share(m, NULL, shared)["dst"]

\* mpc_const_add selecting the last share by its index, c = sc - 1.
mpc_const_add_by_index(m, result, first, second, sc, c) ==
  IF c = 0
    THEN mzd_xor(m, result[0], first[0], second)
    ELSE IF c = sc - 1
      THEN mzd_xor(m, result[sc - 1], first[sc - 1], second)
      ELSE m

\* mpc_const_add copying the shares it does not add to from first to result.
mpc_const_add_copying(m, result, first, second, sc, c) ==
  LET t  == IF c = 0 THEN 0 ELSE sc - 1
      m1 == IF c = 0 \/ c = sc THEN mzd_xor(m, result[t], first[t], second) ELSE m
  IN  [ a \in DOMAIN m1 |->
          IF \E i \in 0 .. (sc - 1) : i # t /\ result[i] = a
            THEN m1[first[CHOOSE i \in 0 .. (sc - 1) : i # t /\ result[i] = a]]
            ELSE m1[a] ]

\* mpc_const_add: second is the public constant, c the slot selector.
mpc_const_add(m, result, first, second, sc, c) ==
  IF c = 0
    THEN mzd_xor(m, result[0], first[0], second)
    ELSE IF c = sc
      THEN mzd_xor(m, result[sc - 1], first[sc - 1], second)
      ELSE m

\* mpc_const_mat_mul adding the products to what result holds
\* (mzd_addmul_v in place of mzd_mul_v).
RECURSIVE mpc_const_mat_mul_adding(_, _, _, _, _, _)
mpc_const_mat_mul_adding(m, result, matrix, vector, sc, i) ==
  IF i >= sc
    THEN m
    ELSE mpc_const_mat_mul_adding(mzd_addmul_v(m, result[i], vector[i], matrix).mem,
                                  result, matrix, vector, sc, i + 1)

\* The loop of mpc_const_mat_mul from share i on; the pointer mzd_mul_v
\* returns is not used.
RECURSIVE mpc_const_mat_mul_from(_, _, _, _, _, _)
mpc_const_mat_mul_from(m, result, matrix, vector, sc, i) ==
  IF i >= sc
    THEN m
    ELSE mpc_const_mat_mul_from(mzd_mul_v(m, result[i], vector[i], matrix).mem,
                                result, matrix, vector, sc, i + 1)

mpc_const_mat_mul(m, result, matrix, vector, sc) ==
  mpc_const_mat_mul_from(m, result, matrix, vector, sc, 0)

\* mpc_init_share_vector without the XOR of v into s[2].
mpc_init_share_vector_no_v(m, s, v, rnd0, rnd1) ==
  LET m1 == mzd_randomize_ssl(m, s[0], rnd0)
      m2 == mzd_randomize_ssl(m1, s[1], rnd1)
  IN  mzd_xor(m2, s[2], s[0], s[1])

\* mpc_init_share_vector on the freshly allocated triple s; rnd0 and rnd1
\* are the outcomes of the two calls of the random source.
mpc_init_share_vector(m, s, v, rnd0, rnd1) ==
  LET m1 == mzd_randomize_ssl(m, s[0], rnd0)
      m2 == mzd_randomize_ssl(m1, s[1], rnd1)
      m3 == mzd_xor(m2, s[2], s[0], s[1])
  IN  mzd_xor(m3, s[2], s[2], v)

(***************************************************************************)
(* The AND gates: a prover runs mpc_and on the shares first, second and r  *)
(* and on a view that earlier gates may have written, and a verifier then  *)
(* replays the gate for the parties 0 and 1 on the committed view.         *)
(* `pre` is the heap on entry to the prover's gate.                        *)
(***************************************************************************)
Arr3(a, b, c) == [ i \in 0 .. 2 |-> IF i = 0 THEN a ELSE IF i = 1 THEN b ELSE c ]

gFirst == Arr3("a0", "a1", "a2")

gSecond == Arr3("b0", "b1", "b2")

gR == Arr3("r0", "r1", "r2")

gRes == Arr3("res0", "res1", "res2")

gBuffer == Arr3("buf0", "buf1", "buf2")

gView == Arr3("view0", "view1", "view2")

vRes == [ i \in 0 .. 1 |-> IF i = 0 THEN "vres0" ELSE "vres1" ]

vBuffer == [ i \in {0} |-> "vbuf0" ]

vView == Arr3("vview0", "vview1", "vview2")

Range(f) == { f[i] : i \in DOMAIN f }

GateAddr ==
  Range(gFirst) \cup Range(gSecond) \cup Range(gR) \cup Range(gRes)
    \cup Range(gBuffer) \cup Range(gView) \cup Range(vRes) \cup Range(vBuffer)
    \cup Range(vView) \cup {"mask"}

\* Vector lengths of the gate runs: one padded word, and four full words.
GateCols == {3, 256}

\* The bit position that carries the inputs of a run.
GateBits(n) == {0, n - 1}

GateCpus == { {}, {"SSE2"}, {"SSE2", "SSE4", "AVX2"} }

Shifts == 0 .. MaxShift

MaskChoices(n) == { 0 .. (n - 1), (n - 1) .. (n - 1) }

GateInit ==
  \E n \in GateCols :
    \E p \in GateBits(n) :
      \E av, bv, rv \in [ 0 .. 2 -> SUBSET {p} ] :
        \E vw \in SUBSET {p} :
          /\ cpu \in GateCpus
          /\ mem = [ a \in GateAddr |->
                       IF a \in Range(gFirst)
                         THEN VecOf(n, av[CHOOSE i \in 0 .. 2 : gFirst[i] = a])
                       ELSE IF a \in Range(gSecond)
                         THEN VecOf(n, bv[CHOOSE i \in 0 .. 2 : gSecond[i] = a])
                       ELSE IF a \in Range(gR)
                         THEN VecOf(n, rv[CHOOSE i \in 0 .. 2 : gR[i] = a])
                       ELSE IF a \in Range(gView)
                         THEN VecOf(n, vw)
                       ELSE mzd_local_init(1, n) ]
          /\ pre = mem
          /\ last = [ op |-> "init", viewshift |-> 0 ]

Prove(viewshift) ==
  /\ last.op = "init"
  /\ pre' = mem
  /\ mem' = mpc_and(mem, gRes, gFirst, gSecond, gR, gView, viewshift, gBuffer)
  /\ last' = [ op |-> "mpc_and", viewshift |-> viewshift ]
  /\ UNCHANGED cpu

\* The verifier is handed the committed view (the prover's) and the mask.
Verify(maskbits) ==
  /\ last.op = "mpc_and"
  /\ LET n  == mem["a0"].ncols
         m0 == [ mem EXCEPT !["vview0"] = mem["view0"], !["vview1"] = mem["view1"],
                            !["vview2"] = mem["view2"],
                            !["mask"] = VecOf(n, maskbits) ]
     IN  mem' = mpc_and_verify(m0, vRes, gFirst, gSecond, gR, vView, "mask",
                               last.viewshift, vBuffer)
  /\ last' = [ last EXCEPT !.op = "mpc_and_verify" ]
  /\ UNCHANGED <<cpu, pre>>

GateNext ==
  \/ \E viewshift \in Shifts : Prove(viewshift)
  \/ \E maskbits \in MaskChoices(mem["a0"].ncols) : Verify(maskbits)

SpecGate == GateInit /\ [][GateNext]_vars

IsZero(A) == \A i \in 0 .. (A.nrows - 1) : RowBits(A, i) = {}

\* C1: after the prover's AND gate on shares a of x, b of y and masks r that
\* reconstruct to 0, the result triple reconstructs to x AND y.
C1_AndGateCorrect ==
  (/\ last.op = "mpc_and"
   /\ IsZero(Reconstruct(mem, gR)))
    => RowBits(Reconstruct(mem, gRes), 0)
         = RowBits(Reconstruct(mem, gFirst), 0)
             \cap RowBits(Reconstruct(mem, gSecond), 0)

\* C1 witness: a gate with a nonzero shift has run on shares that differ,
\* with nonzero masks summing to 0, and x AND y is not zero.
C1_Witness ==
  /\ last.op = "mpc_and"
  /\ last.viewshift > 0
  /\ IsZero(Reconstruct(mem, gR))
  /\ ~IsZero(mem["r0"])
  /\ ~IsZero(mem["a1"]) /\ IsZero(mem["a0"]) /\ IsZero(mem["b1"])
  /\ ~IsZero(Reconstruct(mem, gRes))

\* C2 as stated: the verifier's res[0] is the prover's res[0], and its res[1]
\* is the prover's res[1] ANDed with the mask, for any mask and view.
C2_Original ==
  last.op = "mpc_and_verify"
    => /\ RowBits(mem["vres0"], 0) = RowBits(mem["res0"], 0)
       /\ RowBits(mem["vres1"], 0)
            = RowBits(mem["res1"], 0) \cap RowBits(mem["mask"], 0)

\* C2 amended: the verifier's res[0] is the prover's res[0]; its res[1] is
\* the prover's res[1] ANDed with the mask when view.s[1] was all zero before
\* the prover's gate and the mask has no bit below position viewshift.
C2_VerifierAgrees ==
  last.op = "mpc_and_verify"
    => /\ RowBits(mem["vres0"], 0) = RowBits(mem["res0"], 0)
       /\ (/\ IsZero(pre["view1"])
           /\ RowBits(mem["mask"], 0) \cap (0 .. (last.viewshift - 1)) = {})
            => RowBits(mem["vres1"], 0)
                 = RowBits(mem["res1"], 0) \cap RowBits(mem["mask"], 0)

\* C2 witness: a verifier gate with a nonzero shift whose two results are
\* not zero, on a view that was zero before the prover's gate.
C2_Witness ==
  /\ last.op = "mpc_and_verify"
  /\ last.viewshift > 0
  /\ IsZero(pre["view1"])
  /\ RowBits(mem["mask"], 0) \cap (0 .. (last.viewshift - 1)) = {}
  /\ ~IsZero(mem["vres0"])
  /\ ~IsZero(mem["vres1"])

\* A row's bits shifted right by k: column p moves to p - k, the columns
\* below k leave the row.
ShiftedBits(S, k) == { p - k : p \in { q \in S : q >= k } }

\* A row's bits shifted left by k: column p moves to p + k.
ShiftedLeftBits(S, k) == { p + k : p \in S }

\* The AND formula of party 0 with neighbour j = 1, column by column.
Party0Bits(m) ==
  LET a0 == RowBits(m["a0"], 0)
      a1 == RowBits(m["a1"], 0)
      b0 == RowBits(m["b0"], 0)
      b1 == RowBits(m["b1"], 0)
  IN  WordXor(WordXor(WordXor(a0 \cap b0, a1 \cap b0), a0 \cap b1),
              WordXor(RowBits(m["r0"], 0), RowBits(m["r1"], 0)))

\* C14: mpc_and_verify completes all its writes whatever the committed view
\* holds: res[0] is the AND formula with j = 1, view.s[0] is XORed with
\* res[0] shifted right by viewshift, res[1] is view.s[1] shifted left by
\* viewshift and ANDed with the mask, whatever first, second and r are, and
\* view.s[1] is unchanged.  (The view handed to the verifier is the
\* prover's, view0..view2.)
C14_VerifyNoShortCircuit ==
  last.op = "mpc_and_verify"
    => LET n == mem["a0"].ncols
       IN  /\ mem["vres0"] = VecOf(n, Party0Bits(mem))
           /\ mem["vview0"]
                = VecOf(n, WordXor(RowBits(mem["view0"], 0),
                                   ShiftedBits(Party0Bits(mem), last.viewshift)))
           /\ mem["vres1"]
                = VecOf(n, ShiftedLeftBits(RowBits(mem["view1"], 0), last.viewshift)
                             \cap RowBits(mem["mask"], 0))
           /\ mem["vview1"] = mem["view1"]

\* C14 witness: a replay on a view that is not the one the shares give
\* (view.s[1] held bits before the prover's gate), with a nonzero shift:
\* res[1] is not the prover's res[1] under the mask, and res[0] and the
\* verifier's view.s[0] are not zero.
C14_Witness ==
  /\ last.op = "mpc_and_verify"
  /\ last.viewshift > 0
  /\ ~IsZero(pre["view1"])
  /\ RowBits(mem["vres1"], 0) # RowBits(mem["res1"], 0) \cap RowBits(mem["mask"], 0)
  /\ ~IsZero(mem["vres0"])
  /\ ~IsZero(mem["vview0"])

(***************************************************************************)
(* Secret sharing: mpc_init_share_vector(v) for a vector v with zero       *)
(* padding.  The triple is allocated without being cleared, so its words   *)
(* hold whatever the allocator left (junk) until they are written.         *)
(***************************************************************************)
sShares == Arr3("s0", "s1", "s2")

ShareAddr == Range(sShares) \cup {"v"}

\* One padded word; two full words; three words, the last one padded.
ShareCols == {3, 128, 130}

PlainBits(n) == {0, n - 1}

\* Bits the random source may set: valid ones, and one beyond ncols that
\* lies in the padding of the last word when there is padding.
RandBits(n) == {0, n - 1} \cup (IF n % m4ri_radix = 0 THEN {m4ri_radix} ELSE {n})

JunkChoices(n) == { {}, {1, n - 1} \cup (IF n % m4ri_radix = 0 THEN {} ELSE {n}) }

ShareInit ==
  \E n \in ShareCols :
    \E vb \in SUBSET PlainBits(n) :
      /\ cpu \in CpuChoices
      /\ mem = [ a \in ShareAddr |->
                   IF a = "v" THEN VecOf(n, vb) ELSE mzd_local_init(1, n) ]
      /\ pre = mem
      /\ last = [ op |-> "init" ]

InitShare(junk, rb0, rb1) ==
  /\ last.op = "init"
  /\ LET n  == mem["v"].ncols
         m0 == [ a \in ShareAddr |-> IF a = "v" THEN mem[a] ELSE VecOf(n, junk) ]
     IN  /\ pre' = m0
         /\ mem' = mpc_init_share_vector(m0, sShares, "v",
                                         VecOf(n, rb0).data, VecOf(n, rb1).data)
  /\ last' = [ op |-> "mpc_init_share_vector", rnd0 |-> rb0, rnd1 |-> rb1 ]
  /\ UNCHANGED cpu

ShareNext ==
  \E junk \in JunkChoices(mem["v"].ncols) :
    \E rb0, rb1 \in SUBSET RandBits(mem["v"].ncols) :
      InitShare(junk, rb0, rb1)

SpecShare == ShareInit /\ [][ShareNext]_vars

\* C3: the triple s that mpc_init_share_vector(v) builds reconstructs to v:
\* mpc_reconstruct_from_share(s) = s[0] XOR s[1] XOR s[2] = v, whatever the
\* random source returns.
C3_ShareRoundTrip ==
  last.op = "mpc_init_share_vector"
    => /\ Reconstruct(mem, sShares) = mem["v"]
       /\ WordXor(WordXor(RowBits(mem["s0"], 0), RowBits(mem["s1"], 0)),
                  RowBits(mem["s2"], 0)) = RowBits(mem["v"], 0)

\* C3 witness: a sharing of a nonzero v into three nonzero shares, where
\* the random source set a bit beyond ncols.
C3_Witness ==
  /\ last.op = "mpc_init_share_vector"
  /\ ~IsZero(mem["v"])
  /\ \E p \in last.rnd0 : p >= mem["v"].ncols
  /\ ~IsZero(mem["s0"]) /\ ~IsZero(mem["s1"]) /\ ~IsZero(mem["s2"])
  /\ mem["s0"] # mem["s1"]

(***************************************************************************)
(* Constant addition: mpc_const_add(result, first, k, sc, c), with result  *)
(* either a triple of its own or first itself.                             *)
(***************************************************************************)
cResult == Arr3("cr0", "cr1", "cr2")

ConstAddr == Range(gFirst) \cup Range(cResult) \cup {"k"}

ConstCols == {3, 128}

ConstInit ==
  \E n \in ConstCols :
    \E p \in PlainBits(n) :
      \E av \in [ 0 .. 2 -> SUBSET {p} ] :
        \E rv, kb \in SUBSET PlainBits(n) :
          /\ cpu \in GateCpus
          /\ mem = [ a \in ConstAddr |->
                       IF a \in Range(gFirst)
                         THEN VecOf(n, av[CHOOSE i \in 0 .. 2 : gFirst[i] = a])
                       ELSE IF a = "k" THEN VecOf(n, kb)
                       ELSE VecOf(n, rv) ]
          /\ pre = mem
          /\ last = [ op |-> "init" ]

ConstAdd(result, sc, c) ==
  /\ last.op = "init"
  /\ pre' = mem
  /\ mem' = mpc_const_add(mem, result, gFirst, "k", sc, c)
  /\ last' = [ op |-> "mpc_const_add", result |-> result, sc |-> sc, c |-> c ]
  /\ UNCHANGED cpu

ConstNext ==
  \E result \in {gFirst, cResult} :
    \E sc \in {SC_VERIFY, SC_PROOF} :
      \E c \in 0 .. SC_PROOF :
        ConstAdd(result, sc, c)

SpecConst == ConstInit /\ [][ConstNext]_vars

XorRows(A, B) == WordXor(RowBits(A, 0), RowBits(B, 0))

\* C5 as stated: with sc = 3, mpc_const_add XORs k into result[slot] when
\* slot is 0 or 2, and changes nothing for every other slot value.
C5_Original ==
  (last.op = "mpc_const_add" /\ last.sc = SC_PROOF)
    => IF last.c \in {0, 2}
         THEN RowBits(mem[last.result[last.c]], 0)
                = XorRows(pre[gFirst[last.c]], pre["k"])
         ELSE mem = pre

\* C5 amended: mpc_const_add XORs k into result[0] when c = 0 and into
\* result[sc-1] when c = sc, and changes nothing for every other value of c
\* (so with sc = 3 the last share is selected by c = 3, and c = 2 is a no-op).
C5_ConstAddSlots ==
  last.op = "mpc_const_add"
    => IF last.c = 0
         THEN RowBits(mem[last.result[0]], 0) = XorRows(pre[gFirst[0]], pre["k"])
         ELSE IF last.c = last.sc
           THEN RowBits(mem[last.result[last.sc - 1]], 0)
                  = XorRows(pre[gFirst[last.sc - 1]], pre["k"])
           ELSE mem = pre

\* C5 witness: a call with sc = 3 and c = 3 whose nonzero constant changes
\* result[2].
C5_Witness ==
  /\ last.op = "mpc_const_add"
  /\ ~IsZero(pre["k"])
  /\ last.sc = SC_PROOF
  /\ last.c = SC_PROOF
  /\ mem[last.result[2]] # pre[last.result[2]]

\* The element of result the last call selects: index 0 for c = 0, index
\* sc - 1 for c = sc, and none (-1) for any other c.
ConstTarget == IF last.c = 0 THEN 0 ELSE IF last.c = last.sc THEN last.sc - 1 ELSE -1

\* C17: mpc_const_add writes at most the selected element of result and
\* nothing else, so it copies no share from first; when an element is
\* selected and the other elements of result held the shares of first
\* before the call, result reconstructs to reconstruct(first) XOR k.
C17_ConstAddFrame ==
  last.op = "mpc_const_add"
    => /\ \A a \in ConstAddr :
            (ConstTarget = -1 \/ a # last.result[ConstTarget]) => mem[a] = pre[a]
       /\ (/\ ConstTarget # -1
           /\ \A i \in 0 .. 2 :
                i # ConstTarget => pre[last.result[i]] = pre[gFirst[i]])
            => RowBits(Reconstruct(mem, last.result), 0)
                 = WordXor(RowBits(Reconstruct(pre, gFirst), 0), RowBits(pre["k"], 0))

\* C17 witness: a call with c = sc = 3 on a separate result whose other
\* elements differ from the shares of first: they are left as they were,
\* and result does not reconstruct to reconstruct(first) XOR k.
C17_Witness ==
  /\ last.op = "mpc_const_add"
  /\ last.sc = SC_PROOF
  /\ last.c = SC_PROOF
  /\ last.result = cResult
  /\ ~IsZero(pre["k"])
  /\ mem["cr0"] # mem["a0"]
  /\ mem["cr2"] # pre["cr2"]
  /\ RowBits(Reconstruct(mem, cResult), 0)
       # WordXor(RowBits(Reconstruct(pre, gFirst), 0), RowBits(pre["k"], 0))

(***************************************************************************)
(* Shifts: t = mzd_shift_right(v, count), then u = mzd_shift_left(t,       *)
(* count), into zero-initialised vectors of the shape of v.                *)
(***************************************************************************)
ShiftAddr == {"v", "t", "u"}

ShiftCols == {3, 128, 130}

ShiftBits(n) ==
  {0, 1, n - 2, n - 1}
    \cup (IF n > m4ri_radix THEN {m4ri_radix - 1, m4ri_radix, m4ri_radix + 1} ELSE {})

ShiftCounts == (0 .. MaxShift) \cup {m4ri_radix - 1}

ShiftInit ==
  \E n \in ShiftCols :
    \E vb \in SUBSET ShiftBits(n) :
      /\ cpu \in CpuChoices
      /\ mem = [ a \in ShiftAddr |->
                   IF a = "v" THEN VecOf(n, vb) ELSE mzd_local_init(1, n) ]
      /\ pre = mem
      /\ last = [ op |-> "init", count |-> 0 ]

ShiftRight(count) ==
  /\ last.op = "init"
  /\ pre' = mem
  /\ mem' = mzd_shift_right(mem, "t", "v", count)
  /\ last' = [ op |-> "mzd_shift_right", count |-> count ]
  /\ UNCHANGED cpu

ShiftLeftBack ==
  /\ last.op = "mzd_shift_right"
  /\ pre' = mem
  /\ mem' = mzd_shift_left(mem, "u", "t", last.count)
  /\ last' = [ op |-> "mzd_shift_left", count |-> last.count ]
  /\ UNCHANGED cpu

ShiftNext ==
  \/ \E count \in ShiftCounts : ShiftRight(count)
  \/ ShiftLeftBack

SpecShift == ShiftInit /\ [][ShiftNext]_vars

\* The positions of the top k bits of V: of its ncols columns, and of the
\* words that store them.
TopBits(V, k) == (V.ncols - k) .. (V.width * m4ri_radix - 1)

\* C6 as stated: for 0 < k < W and v with its top k bits zero,
\* mzd_shift_left(mzd_shift_right(v, k), k) = v.
C6_Original ==
  (/\ last.op = "mzd_shift_left"
   /\ last.count > 0
   /\ RowBits(mem["v"], 0) \cap TopBits(mem["v"], last.count) = {})
    => mem["u"] = mem["v"]

\* C6 amended: for 0 < k < W and v with its low k bits (bits 0..k-1 of word
\* 0) zero, mzd_shift_left(mzd_shift_right(v, k), k) = v.
C6_ShiftRoundTrip ==
  (/\ last.op = "mzd_shift_left"
   /\ last.count > 0
   /\ RowBits(mem["v"], 0) \cap (0 .. (last.count - 1)) = {})
    => mem["u"] = mem["v"]

\* C6 witness: a round trip by k > 0 of a vector of more than one word with
\* zero low k bits and a bit that crosses a word boundary on the way.
C6_Witness ==
  /\ last.op = "mzd_shift_left"
  /\ last.count > 0
  /\ RowBits(mem["v"], 0) \cap (0 .. (last.count - 1)) = {}
  /\ m4ri_radix \in RowBits(mem["v"], 0)
  /\ (m4ri_radix - last.count) \in RowBits(mem["t"], 0)

\* The vector [0x8000000000000001, 0x0000000000000002]: bits 0 and 63 of
\* word 0, bit 1 of word 1.
C7_Input == VecOf(128, {0, 63, m4ri_radix + 1})

\* C7 as stated: mzd_shift_right of [0x8000000000000001, 0x2] by 1 is
\* [0xc000000000000000, 0x1] (bits 62 and 63 of word 0, bit 0 of word 1).
C7_Original ==
  (last.op = "mzd_shift_right" /\ last.count = 1 /\ mem["v"] = C7_Input)
    => /\ mem["t"].data[0] = {62, 63}
       /\ mem["t"].data[1] = {0}

\* C7 amended: mzd_shift_right of [0x8000000000000001, 0x2] by 1 is
\* [0x4000000000000000, 0x1] (bit 62 of word 0, bit 0 of word 1).
C7_ShiftRightLiteral ==
  (last.op = "mzd_shift_right" /\ last.count = 1 /\ mem["v"] = C7_Input)
    => /\ mem["t"].data[0] = {62}
       /\ mem["t"].data[1] = {0}

\* C7 witness: the literal vector has been shifted right by 1.
C7_Witness ==
  /\ last.op = "mzd_shift_right"
  /\ last.count = 1
  /\ mem["v"] = C7_Input
  /\ mem["t"] # mem["v"]

(***************************************************************************)
(* Multiplication: mzd_mul_v(c, v, A) and mzd_addmul_v(c, v, A) on a       *)
(* vector v, a matrix A and a destination c that is absent or a vector,    *)
(* of shapes that match or not.                                            *)
(***************************************************************************)
\* Shapes: v.ncols, A.nrows, A.ncols and c.ncols (0: c is absent).
SmallDims == {2, 3}

SmallShapes ==
  { [ vn |-> vn, ar |-> ar, ac |-> ac, cn |-> cn ] :
      vn \in SmallDims, ar \in SmallDims, ac \in SmallDims, cn \in SmallDims \cup {0} }

\* The shapes on which a SIMD path of mzd_addmul_v is legal.
SimdDims == { <<64, 128>>, <<128, 128>>, <<64, 256>> }

SimdShapes ==
  { [ vn |-> d[1], ar |-> d[1], ac |-> d[2], cn |-> cn ] :
      d \in SimdDims, cn \in {0, 128, 256} }

MulShapes ==
  SmallShapes \cup { sh \in SimdShapes : sh.cn \in {0, sh.ac} }

\* Matrices: row i holds column i (mod ncols), and in the second family
\* the last column as well.
MatChoices(r, c) ==
  { MatOf(r, c, [ i \in 0 .. (r - 1) |-> {i % c} ]),
    MatOf(r, c, [ i \in 0 .. (r - 1) |-> {i % c, c - 1} ]) }

\* Vectors: every vector of a small length; of a long one, every value of
\* one nibble at the ends of each word, and the all-ones vector.
NibbleStarts(n) ==
  { 0, 4 } \cup { w * m4ri_radix - 4 : w \in 1 .. (n \div m4ri_radix) }
    \cup { w * m4ri_radix : w \in 1 .. ((n \div m4ri_radix) - 1) }

VecChoices(n) ==
  IF n < m4ri_radix
    THEN SUBSET (0 .. (n - 1))
    ELSE { { s + b : b \in nib } : s \in NibbleStarts(n), nib \in SUBSET (0 .. 3) }
           \cup { 0 .. (n - 1) }

MulAddr == {"v", "A", "c"}

MulInit ==
  \E sh \in MulShapes :
    \E vb \in VecChoices(sh.vn) :
      \E Amat \in MatChoices(sh.ar, sh.ac) :
        \E cb \in { {}, {0, sh.cn - 1} } :
          /\ cb = {} \/ sh.cn > 0
          /\ cpu \in GateCpus
          /\ mem = [ a \in MulAddr |->
                       IF a = "v" THEN VecOf(sh.vn, vb)
                       ELSE IF a = "A" THEN Amat
                       ELSE IF sh.cn = 0 THEN Unalloc
                       ELSE VecOf(sh.cn, cb) ]
          /\ pre = mem
          /\ last = [ op |-> "init", ret |-> NULL ]

\* The pointer the caller passes for c.
cArg == IF mem["c"] = Unalloc THEN NULL ELSE "c"

MulV ==
  /\ last.op = "init"
  /\ pre' = mem
  /\ LET r == mzd_mul_v(mem, cArg, "v", "A")
     IN  /\ mem' = r.mem
         /\ last' = [ op |-> "mzd_mul_v", ret |-> r.ret ]
  /\ UNCHANGED cpu

AddMulV ==
  /\ last.op = "init"
  /\ pre' = mem
  /\ LET r == mzd_addmul_v(mem, cArg, "v", "A")
     IN  /\ mem' = r.mem
         /\ last' = [ op |-> "mzd_addmul_v", ret |-> r.ret ]
  /\ UNCHANGED cpu

MulNext == MulV \/ AddMulV

SpecMul == MulInit /\ [][MulNext]_vars

\* The shapes of the last call do not match: A.nrows # v.ncols, or c is
\* present and A.ncols # c.ncols.
DimMismatch ==
  \/ pre["A"].nrows # pre["v"].ncols
  \/ (pre["c"] # Unalloc /\ pre["A"].ncols # pre["c"].ncols)

\* C8: mzd_mul_v and mzd_addmul_v return NULL whenever the shapes do not
\* match and a vector whenever they match; there is no other outcome.
C8_DimMismatch ==
  last.op \in {"mzd_mul_v", "mzd_addmul_v"}
    => IF DimMismatch THEN last.ret = NULL ELSE last.ret \notin {NULL, FAULT}

\* A SIMD path is legal for the last call: c is present, the shapes match,
\* A.nrows is a multiple of W and A.ncols a multiple of 128.
SimdLegal ==
  /\ pre["c"] # Unalloc
  /\ ~DimMismatch
  /\ pre["A"].nrows % m4ri_radix = 0
  /\ pre["A"].ncols % 128 = 0

\* C9: on every v and A for which a SIMD path is legal, the nibble dispatch
\* of the SSE path, and of the AVX path where A.ncols is a multiple of 256,
\* leaves c bit-identical to the scalar bit-by-bit loop, and so does the
\* path mzd_addmul_v chooses on the machine at hand.
C9_SimdEqualsScalar ==
  (last.op = "mzd_addmul_v" /\ SimdLegal)
    => LET scalar == mzd_addmul_v_scalar(pre, "c", "v", "A")["c"]
       IN  /\ mzd_addmul_v_sse(pre, "c", "v", "A")["c"] = scalar
           /\ pre["A"].ncols % 256 = 0
                => mzd_addmul_v_avx(pre, "c", "v", "A")["c"] = scalar
           /\ mem["c"] = scalar

\* C9 witness: a SIMD path has run on a v whose word 1 starts with the
\* nibble 0x6, and has changed a c that was not zero.
C9_Witness ==
  /\ last.op = "mzd_addmul_v"
  /\ SimdLegal
  /\ CPU_SUPPORTS_SSE2
  /\ pre["v"].width > 1
  /\ LowNibble(pre["v"].data[1]) = 6
  /\ ~IsZero(pre["c"])
  /\ mem["c"] # pre["c"]

\* C16: whenever mzd_mul_v or mzd_addmul_v returns NULL because of a
\* dimension mismatch, the supplied destination c holds what it held before
\* the call.
C16_DestinationUnchanged ==
  (/\ last.op \in {"mzd_mul_v", "mzd_addmul_v"}
   /\ last.ret = NULL
   /\ pre["c"] # Unalloc)
    => mem["c"] = pre["c"]

\* The product v*A over GF(2), column by column: column col of the product
\* is set when an odd number of the rows of A selected by the set bits of v
\* have column col set.
ProductBits(V, A) ==
  LET sel == RowBits(V, 0)
  IN  { col \in 0 .. (A.ncols - 1) :
          Cardinality({ j \in sel : col \in RowBits(A, j) }) % 2 = 1 }

\* C11: for v and A with A.nrows = v.ncols and a supplied c of A.ncols
\* columns, whatever c held before, mzd_mul_v(c, v, A) returns c and leaves
\* it equal to the XOR of the rows of A selected by the set bits of v.
C11_MulVProduct ==
  (last.op = "mzd_mul_v" /\ pre["c"] # Unalloc /\ ~DimMismatch)
    => /\ last.ret = "c"
       /\ mem["c"] = VecOf(pre["A"].ncols, ProductBits(pre["v"], pre["A"]))

\* C11 witness: a product of a v with two or more bits set, of which two
\* selected rows cancel in a column, into a c that was not zero, and the
\* product is not zero.
C11_Witness ==
  /\ last.op = "mzd_mul_v"
  /\ pre["c"] # Unalloc
  /\ ~DimMismatch
  /\ ~IsZero(pre["c"])
  /\ Cardinality(RowBits(pre["v"], 0)) >= 2
  /\ (pre["A"].ncols - 1) \in RowBits(pre["A"], 0)
  /\ (pre["A"].ncols - 1) \notin RowBits(mem["c"], 0)
  /\ ~IsZero(mem["c"])
  /\ mem["c"] # pre["c"]

(***************************************************************************)
(* Equality: mzd_local_equal(a, b) on matrices of one or two rows, of the  *)
(* same shape or not, with zero padding.                                   *)
(***************************************************************************)
EqualAddr == {"a", "b"}

EqualRows == {1, 2}

EqualCols == {3, 128, 256}

EqualMats ==
  UNION { { MatOf(r, c, bits) : bits \in [ 0 .. (r - 1) -> SUBSET PlainBits(c) ] }
          : r \in EqualRows, c \in EqualCols }

EqualInit ==
  /\ cpu \in CpuChoices
  /\ mem \in [ EqualAddr -> EqualMats ]
  /\ pre = mem
  /\ last = [ op |-> "init", ret |-> FALSE ]

Equal ==
  /\ last.op = "init"
  /\ last' = [ op |-> "mzd_local_equal", ret |-> mzd_local_equal(mem["a"], mem["b"]) ]
  /\ UNCHANGED <<cpu, mem, pre>>

EqualNext == Equal

SpecEqual == EqualInit /\ [][EqualNext]_vars

\* a and b have the same shape and the same bits in every row.
StructEqual(A, B) ==
  /\ A.nrows = B.nrows
  /\ A.ncols = B.ncols
  /\ \A i \in 0 .. (A.nrows - 1) : RowBits(A, i) = RowBits(B, i)

\* C10: mzd_local_equal(a, b) is true exactly when a and b have the same
\* nrows and ncols and every bit of every row is equal, on every backend.
C10_EqualStructural ==
  last.op = "mzd_local_equal"
    => /\ last.ret = StructEqual(mem["a"], mem["b"])
       /\ (mem["a"].nrows = mem["b"].nrows /\ mem["a"].ncols = mem["b"].ncols)
            => /\ mzd_equal_sse(mem["a"], mem["b"]) = mzd_cmp_is_0(mem["a"], mem["b"])
               /\ mzd_equal_sse41(mem["a"], mem["b"]) = mzd_cmp_is_0(mem["a"], mem["b"])
               /\ mzd_equal_avx(mem["a"], mem["b"]) = mzd_cmp_is_0(mem["a"], mem["b"])

(***************************************************************************)
(* Kernel writes: up to MaxOps operations on two vectors x and y that      *)
(* mzd_local_init produced, with a square matrix A for the products.       *)
(***************************************************************************)
KernelVecs == {"x", "y"}

KernelAddr == KernelVecs \cup {"A"}

\* One padded word; two words, the last one padded.
KernelCols == {3, 66}

KernelInit ==
  \E n \in KernelCols :
    /\ cpu \in GateCpus
    /\ mem = [ a \in KernelAddr |->
                 IF a = "A"
                   THEN MatOf(n, n, [ i \in 0 .. (n - 1) |-> {i, n - 1} ])
                   ELSE mzd_local_init(1, n) ]
    /\ pre = mem
    /\ last = [ op |-> "init", steps |-> 0 ]

KernelStep(op, m) ==
  /\ last.steps < MaxOps
  /\ pre' = mem
  /\ mem' = m
  /\ last' = [ op |-> op, steps |-> last.steps + 1 ]
  /\ UNCHANGED cpu

KRandomize(dst, rb) ==
  KernelStep("mzd_randomize_ssl",
             mzd_randomize_ssl(mem, dst, VecOf(mem[dst].ncols, rb).data))

KCopy(dst, src) == KernelStep("mzd_local_copy", mzd_local_copy(mem, dst, src))

KXor(dst, a, b) == KernelStep("mzd_xor", mzd_xor(mem, dst, a, b))

KAnd(dst, a, b) == KernelStep("mzd_and", mzd_and(mem, dst, a, b))

KShiftLeft(dst, src, k) == KernelStep("mzd_shift_left", mzd_shift_left(mem, dst, src, k))

KShiftRight(dst, src, k) ==
  KernelStep("mzd_shift_right", mzd_shift_right(mem, dst, src, k))

\* The products read row j of A for every set bit j of v: v must hold no
\* bit at or beyond A.nrows, or the code reads beyond the buffer of A.
InContract(v) == RowBits(mem[v], 0) \subseteq 0 .. (mem["A"].nrows - 1)

KMulV(dst, src) ==
  /\ dst # src
  /\ InContract(src)
  /\ KernelStep("mzd_mul_v", mzd_mul_v(mem, dst, src, "A").mem)

KAddMulV(dst, src) ==
  /\ dst # src
  /\ InContract(src)
  /\ KernelStep("mzd_addmul_v", mzd_addmul_v(mem, dst, src, "A").mem)

KernelNext ==
  \/ \E dst \in KernelVecs : \E rb \in SUBSET RandBits(mem[dst].ncols) : KRandomize(dst, rb)
  \/ \E dst, src \in KernelVecs : KCopy(dst, src)
  \/ \E dst, a, b \in KernelVecs : KXor(dst, a, b)
  \/ \E dst, a, b \in KernelVecs : KAnd(dst, a, b)
  \/ \E dst, src \in KernelVecs : \E k \in Shifts : KShiftLeft(dst, src, k)
  \/ \E dst, src \in KernelVecs : \E k \in Shifts : KShiftRight(dst, src, k)
  \/ \E dst, src \in KernelVecs : KMulV(dst, src)
  \/ \E dst, src \in KernelVecs : KAddMulV(dst, src)

SpecKernel == KernelInit /\ [][KernelNext]_vars

\* C4: after any sequence of kernel writes on vectors produced by init,
\* every vector has all bits of its last word at positions >= ncols mod W
\* equal to zero.
C4_PaddingZero == \A a \in KernelVecs : PaddingZero(mem[a])

(***************************************************************************)
(* Absent destination: each kernel called once with a null destination.    *)
(* A call gives the heap after it and what the caller gets back: the       *)
(* address of the destination, VOID from a function that returns nothing,  *)
(* or FAULT when the call dereferences the null pointer.  A destination    *)
(* the call allocates is at the address "heap".                            *)
(***************************************************************************)
VOID == "VOID"

\* mzd_local_copy with its return value, dst possibly absent.
mzd_local_copy_ret(m, dst, src) ==
  IF dst = src
    THEN [ mem |-> m, ret |-> dst ]
    ELSE IF dst = NULL
      THEN [ mem |-> mzd_local_copy(Alloc(m, "heap", m[src].nrows, m[src].ncols),
                                    "heap", src),
             ret |-> "heap" ]
      ELSE [ mem |-> mzd_local_copy(m, dst, src), ret |-> dst ]

\* mzd_xor with its return value, res possibly absent.
mzd_xor_ret(m, res, first, second) ==
  IF res = NULL
    THEN [ mem |-> mzd_xor(Alloc(m, "heap", 1, m[first].ncols), "heap", first, second),
           ret |-> "heap" ]
    ELSE [ mem |-> mzd_xor(m, res, first, second), ret |-> res ]

\* mzd_and with its return value, res possibly absent.
mzd_and_ret(m, res, first, second) ==
  IF res = NULL
    THEN [ mem |-> mzd_and(Alloc(m, "heap", 1, m[first].ncols), "heap", first, second),
           ret |-> "heap" ]
    ELSE [ mem |-> mzd_and(m, res, first, second), ret |-> res ]

\* mzd_shift_right returns nothing: with count = 0 it drops the pointer
\* mzd_local_copy returns, with count > 0 it reads res->rows[0].
mzd_shift_right_ret(m, res, val, count) ==
  IF count = 0
    THEN [ mem |-> mzd_local_copy_ret(m, res, val).mem, ret |-> VOID ]
    ELSE IF res = NULL
      THEN [ mem |-> m, ret |-> FAULT ]
      ELSE [ mem |-> mzd_shift_right(m, res, val, count), ret |-> VOID ]

\* mzd_shift_left, likewise.
mzd_shift_left_ret(m, res, val, count) ==
  IF count = 0
    THEN [ mem |-> mzd_local_copy_ret(m, res, val).mem, ret |-> VOID ]
    ELSE IF res = NULL
      THEN [ mem |-> m, ret |-> FAULT ]
      ELSE [ mem |-> mzd_shift_left(m, res, val, count), ret |-> VOID ]

AbsentAddr == {"first", "second", "A"}

\* One padded word; two full words (the SIMD paths).
AbsentCols == {3, 128}

AbsentInit ==
  \E n \in AbsentCols :
    \E fb, sb \in SUBSET PlainBits(n) :
      /\ cpu \in GateCpus
      /\ mem = [ a \in AbsentAddr |->
                   IF a = "first" THEN VecOf(n, fb)
                   ELSE IF a = "second" THEN VecOf(n, sb)
                   ELSE MatOf(n, n, [ i \in 0 .. (n - 1) |-> {i, n - 1} ]) ]
      /\ pre = mem
      /\ last = [ op |-> "init", ret |-> NULL, count |-> 0 ]

AbsentCall(op, r, count) ==
  /\ last.op = "init"
  /\ pre' = mem
  /\ mem' = r.mem
  /\ last' = [ op |-> op, ret |-> r.ret, count |-> count ]
  /\ UNCHANGED cpu

ACopy == AbsentCall("mzd_local_copy", mzd_local_copy_ret(mem, NULL, "first"), 0)

AXor == AbsentCall("mzd_xor", mzd_xor_ret(mem, NULL, "first", "second"), 0)

AAnd == AbsentCall("mzd_and", mzd_and_ret(mem, NULL, "first", "second"), 0)

AShiftLeft(k) ==
  AbsentCall("mzd_shift_left", mzd_shift_left_ret(mem, NULL, "first", k), k)

AShiftRight(k) ==
  AbsentCall("mzd_shift_right", mzd_shift_right_ret(mem, NULL, "first", k), k)

AMulV == AbsentCall("mzd_mul_v", mzd_mul_v(mem, NULL, "first", "A"), 0)

AAddMulV == AbsentCall("mzd_addmul_v", mzd_addmul_v(mem, NULL, "first", "A"), 0)

AbsentNext ==
  \/ ACopy
  \/ AXor
  \/ AAnd
  \/ \E k \in Shifts : AShiftLeft(k)
  \/ \E k \in Shifts : AShiftRight(k)
  \/ AMulV
  \/ AAddMulV

SpecAbsent == AbsentInit /\ [][AbsentNext]_vars

\* What the last call would leave in a zeroed destination d of matching
\* shape that the caller supplied.
WithDestination ==
  LET m0 == Alloc(pre, "d", 1, pre["first"].ncols)
  IN  CASE last.op = "mzd_local_copy" -> mzd_local_copy(m0, "d", "first")["d"]
        [] last.op = "mzd_xor" -> mzd_xor(m0, "d", "first", "second")["d"]
        [] last.op = "mzd_and" -> mzd_and(m0, "d", "first", "second")["d"]
        [] last.op = "mzd_shift_left" -> mzd_shift_left(m0, "d", "first", last.count)["d"]
        [] last.op = "mzd_shift_right" -> mzd_shift_right(m0, "d", "first", last.count)["d"]
        [] last.op = "mzd_mul_v" -> mzd_mul_v(m0, "d", "first", "A").mem["d"]
        [] last.op = "mzd_addmul_v" -> mzd_addmul_v(m0, "d", "first", "A").mem["d"]

\* C12: every kernel called with an absent destination allocates one of
\* matching shape, writes the result into it and returns it; none faults
\* and none loses the result.
C12_AbsentDestination ==
  last.op # "init"
    => /\ last.ret = "heap"
       /\ "heap" \in DOMAIN mem
       /\ mem["heap"] = WithDestination

(***************************************************************************)
(* Sequences of gates: up to MaxOps AND gates, each run by the prover with *)
(* mpc_and on fresh input shares and then replayed by the verifier with    *)
(* mpc_and_verify for the parties 0 and 1, on the same viewshift.  The     *)
(* verifier holds its own first[0..1] (va0, va1): the prover's, or with    *)
(* one bit of first[0] flipped.  Both views start all zero, except the     *)
(* verifier's s[1], which is the committed one and is only read.           *)
(* `last` carries the history the claims speak of: acc[m], the XOR of the  *)
(* prover's results shifted by their viewshift; dacc, the XOR of the       *)
(* shifted differences of the two party-0 results; same, whether every     *)
(* replay had the prover's inputs; differs, whether some replay had a      *)
(* party-0 result that differs in a bit that survives the shift.           *)
(***************************************************************************)
vFirst == [ i \in 0 .. 1 |-> IF i = 0 THEN "va0" ELSE "va1" ]

SeqAddr == GateAddr \cup Range(vFirst)

\* One padded word; two full words (a shift crosses the word boundary).
SeqCols == {3, 128}

\* The input shares of a gate: first, second and r, per party.
SeqInputs(n) ==
  LET hi == IF n > m4ri_radix THEN m4ri_radix ELSE 2
  IN  { [ a |-> Arr3({0, 1, hi}, {}, {1}),
          b |-> Arr3({0, 1, hi, n - 1}, {0, hi}, {n - 1}),
          r |-> Arr3({}, {}, {}) ],
        [ a |-> Arr3({1, n - 1}, {0, 1, hi}, {hi}),
          b |-> Arr3({1, hi}, {0, n - 1}, {0, 1}),
          r |-> Arr3({0, hi}, {n - 1}, {0, hi, n - 1}) ],
        [ a |-> Arr3({hi}, {1, hi}, {0, 1}),
          b |-> Arr3({1}, {hi}, {0, hi}),
          r |-> Arr3({1}, {0}, {0, 1}) ] }

\* The bit of first[0] a replay may flip: none (column ncols, which no
\* vector has), or column 1.
TamperChoices(n) == {n, 1}

\* The caller's writes of a share triple: the vectors at arr[0..2] set to
\* the bits[0..2].
WriteShares(m, arr, n, bits) ==
  [ m EXCEPT ![arr[0]] = VecOf(n, bits[0]),
             ![arr[1]] = VecOf(n, bits[1]),
             ![arr[2]] = VecOf(n, bits[2]) ]

SeqInit ==
  \E n \in SeqCols :
    /\ cpu \in GateCpus
    /\ mem = [ a \in SeqAddr |->
                 IF a = "mask" THEN VecOf(n, 0 .. (n - 1))
                 ELSE IF a = "vview1" THEN VecOf(n, {1, n - 1})
                 ELSE mzd_local_init(1, n) ]
    /\ pre = mem
    /\ last = [ op |-> "init", gates |-> 0, viewshift |-> 0,
                acc |-> [ i \in 0 .. 2 |-> {} ], dacc |-> {},
                same |-> TRUE, differs |-> FALSE ]

\* The caller writes the input shares `inp`, then calls mpc_and.
SeqProve(inp, viewshift) ==
  /\ last.op \in {"init", "mpc_and_verify"}
  /\ last.gates < MaxOps
  /\ LET n  == mem["a0"].ncols
         m0 == WriteShares(WriteShares(WriteShares(mem, gFirst, n, inp.a),
                                       gSecond, n, inp.b),
                           gR, n, inp.r)
         m1 == mpc_and(m0, gRes, gFirst, gSecond, gR, gView, viewshift, gBuffer)
     IN  /\ mem' = m1
         /\ last' = [ last EXCEPT
                        !.op = "mpc_and",
                        !.gates = last.gates + 1,
                        !.viewshift = viewshift,
                        !.acc = [ i \in 0 .. 2 |->
                                    WordXor(last.acc[i],
                                            ShiftedBits(RowBits(m1[gRes[i]], 0),
                                                        viewshift)) ] ]
  /\ pre' = mem
  /\ UNCHANGED cpu

\* The verifier writes its first[0..1] (the prover's, with column `flip` of
\* first[0] flipped), then calls mpc_and_verify on the gate's viewshift.
SeqVerify(flip) ==
  /\ last.op = "mpc_and"
  /\ LET n  == mem["a0"].ncols
         m0 == [ mem EXCEPT
                   !["va0"] = VecOf(n, WordXor(RowBits(mem["a0"], 0),
                                               {flip} \cap (0 .. (n - 1)))),
                   !["va1"] = mem["a1"] ]
         m1 == mpc_and_verify(m0, vRes, vFirst, gSecond, gR, vView, "mask",
                              last.viewshift, vBuffer)
         d  == ShiftedBits(WordXor(RowBits(m1["res0"], 0), RowBits(m1["vres0"], 0)),
                           last.viewshift)
     IN  /\ mem' = m1
         /\ last' = [ last EXCEPT
                        !.op = "mpc_and_verify",
                        !.dacc = WordXor(last.dacc, d),
                        !.same = last.same /\ flip >= n,
                        !.differs = last.differs \/ d # {} ]
  /\ pre' = mem
  /\ UNCHANGED cpu

SeqNext ==
  \/ \E inp \in SeqInputs(mem["a0"].ncols) : \E viewshift \in Shifts :
       SeqProve(inp, viewshift)
  \/ \E flip \in TamperChoices(mem["a0"].ncols) : SeqVerify(flip)

SpecSeq == SeqInit /\ [][SeqNext]_vars

\* C13: starting from an all-zero view, after any sequence of prover gates
\* view.s[m] is, for every party m, the XOR over the gates of the gate's
\* res[m] shifted right by its viewshift; and each gate changes view.s[m]
\* only by XORing in its own shifted result.
C13_ViewAccumulates ==
  /\ \A i \in 0 .. 2 : RowBits(mem[gView[i]], 0) = last.acc[i]
  /\ last.op = "mpc_and"
       => \A i \in 0 .. 2 :
            mem[gView[i]]
              = VecOf(mem[gView[i]].ncols,
                      WordXor(RowBits(pre[gView[i]], 0),
                              ShiftedBits(RowBits(mem[gRes[i]], 0), last.viewshift)))

\* C13 witness: a second gate with a nonzero shift has changed a view that
\* the first gate left nonzero, a bit of its result has crossed a word
\* boundary or left the row, and no view is zero.
C13_Witness ==
  /\ last.op = "mpc_and"
  /\ last.gates = 2
  /\ last.viewshift > 0
  /\ ~IsZero(pre["view0"])
  /\ mem["view0"] # pre["view0"]
  /\ RowBits(mem["res0"], 0) \cap {0, m4ri_radix} # {}
  /\ \A i \in 0 .. 2 : ~IsZero(mem[gView[i]])

\* C15 as stated: after a replayed sequence the verifier's view.s[0] is the
\* prover's when every replay had the prover's inputs, and the two differ
\* when the party-0 result of some gate differs in a bit that survives the
\* shift.
C15_Original ==
  last.op = "mpc_and_verify"
    => /\ last.same => mem["vview0"] = mem["view0"]
       /\ last.differs => mem["vview0"] # mem["view0"]

\* C15 amended: after a replayed sequence the verifier's view.s[0] is the
\* prover's when every replay had the prover's inputs; in general the XOR
\* of the two is the XOR over the gates of the difference of the two party-0
\* results shifted right by the gate's viewshift, so that the two differ
\* exactly when these differences do not cancel, and after a single gate
\* exactly when a result bit that survives the shift differs.
C15_VerifierView0 ==
  last.op = "mpc_and_verify"
    => /\ last.same => mem["vview0"] = mem["view0"]
       /\ WordXor(RowBits(mem["vview0"], 0), RowBits(mem["view0"], 0)) = last.dacc
       /\ last.gates = 1 => (last.differs <=> mem["vview0"] # mem["view0"])

\* C15 witness: two gates have been replayed, one of them with a flipped
\* input bit that survives the shift; the views were not zero before the
\* second replay, and they differ after it.
C15_Witness ==
  /\ last.op = "mpc_and_verify"
  /\ last.gates = 2
  /\ last.differs
  /\ ~IsZero(pre["vview0"])
  /\ ~IsZero(mem["view0"])
  /\ mem["vview0"] # mem["view0"]

(***************************************************************************)
(* Linear layer: mpc_const_mat_mul(result, M, s, 3) on a share triple s of *)
(* M.nrows columns and a result triple, distinct from s, of M.ncols        *)
(* columns that holds earlier contents.                                    *)
(***************************************************************************)
lResult == Arr3("y0", "y1", "y2")

LinearAddr == Range(sShares) \cup Range(lResult) \cup {"M"}

\* M.nrows and M.ncols: small ones (scalar path), and one SIMD shape.
LinearDims == { <<2, 3>>, <<3, 2>>, <<64, 128>> }

\* The values of one share of n columns.
LinearShares(n) ==
  IF n < m4ri_radix
    THEN SUBSET (0 .. (n - 1))
    ELSE { {}, {0, 5}, {5, n - 1}, 0 .. (n - 1) }

LinearInit ==
  \E d \in LinearDims :
    \E Mmat \in MatChoices(d[1], d[2]) :
      \E sv \in [ 0 .. 2 -> LinearShares(d[1]) ] :
        \E yb \in { {}, {0, d[2] - 1} } :
          /\ cpu \in GateCpus
          /\ mem = [ a \in LinearAddr |->
                       IF a = "M" THEN Mmat
                       ELSE IF a \in Range(sShares)
                         THEN VecOf(d[1], sv[CHOOSE i \in 0 .. 2 : sShares[i] = a])
                       ELSE VecOf(d[2], yb) ]
          /\ pre = mem
          /\ last = [ op |-> "init" ]

ConstMatMul ==
  /\ last.op = "init"
  /\ pre' = mem
  /\ mem' = mpc_const_mat_mul(mem, lResult, "M", sShares, SC_PROOF)
  /\ last' = [ op |-> "mpc_const_mat_mul" ]
  /\ UNCHANGED cpu

LinearNext == ConstMatMul

SpecLinear == LinearInit /\ [][LinearNext]_vars

\* mzd_mul_v(NULL, reconstruct(s), M): the product of the plaintext.
PlainProduct(m) ==
  mzd_mul_v(mpc_reconstruct_from_share(m, NULL, sShares), NULL, "dst", "M").mem["heap"]

\* C18: the result of mpc_const_mat_mul(result, M, s) reconstructs to
\* mzd_mul_v(reconstruct(s), M), for result vectors distinct from s.
C18_LinearCommutes ==
  last.op = "mpc_const_mat_mul"
    => /\ Reconstruct(mem, lResult) = PlainProduct(pre)
       /\ RowBits(Reconstruct(mem, lResult), 0)
            = ProductBits(Reconstruct(pre, sShares), pre["M"])

\* C18 witness: three nonzero shares, two of them different, multiplied by
\* a matrix whose rows share a column, into results that were not zero; the
\* plaintext and its product are not zero.
C18_Witness ==
  /\ last.op = "mpc_const_mat_mul"
  /\ \A i \in 0 .. 2 : ~IsZero(pre[sShares[i]]) /\ ~IsZero(pre[lResult[i]])
  /\ pre["s0"] # pre["s1"]
  /\ (pre["M"].ncols - 1) \in RowBits(pre["M"], 0)
  /\ ~IsZero(Reconstruct(pre, sShares))
  /\ ~IsZero(Reconstruct(mem, lResult))
  /\ mem["y0"] # mem["y1"]

(***************************************************************************)
(* The prover's gate in place: mpc_and(first, first, second, r, view,      *)
(* viewshift, buffer), res being the triple first itself, from the heaps   *)
(* of GateInit.                                                            *)
(***************************************************************************)
ProveInPlace(viewshift) ==
  /\ last.op = "init"
  /\ pre' = mem
  /\ mem' = mpc_and(mem, gFirst, gFirst, gSecond, gR, gView, viewshift, gBuffer)
  /\ last' = [ op |-> "mpc_and", viewshift |-> viewshift ]
  /\ UNCHANGED cpu

AliasNext == \E viewshift \in Shifts : ProveInPlace(viewshift)

SpecAlias == GateInit /\ [][AliasNext]_vars

\* The heap the same gate leaves when res is the separate triple gRes.
SeparateGate == mpc_and(pre, gRes, gFirst, gSecond, gR, gView, last.viewshift, gBuffer)

\* C19: mpc_and with res aliasing first leaves in res[0..2] and in the view
\* what it leaves when res is a separate triple.
C19_InPlaceSafe ==
  last.op = "mpc_and"
    => \A i \in 0 .. 2 :
         /\ mem[gFirst[i]] = SeparateGate[gRes[i]]
         /\ mem[gView[i]] = SeparateGate[gView[i]]

====
